---- MODULE Spec2Model ----
(***************************************************************************)
(* Protocol engine of the Mipot 32001353 LoRaWAN module driver             *)
(* (src/lora4click.py): frame encoding in MipotSerial.transmit, the        *)
(* receive loop of MipotSerial.receive, the reply-wait of                  *)
(* MipotCmd._get_reply, MipotCmd.get_indication and the typed commands.    *)
(*                                                                         *)
(* Bytes are integers 0..255, byte strings are sequences.  Every           *)
(* uart.read() of receive is one step; the code that follows the last      *)
(* read of a call (queueing, retry loop, finally-clause, return) belongs   *)
(* to the step of that read.  Time is counted in ticks from the entry of   *)
(* the running receive call (only differences of clock values are used by  *)
(* the code).  Every clock_gettime() may return any value from the         *)
(* previous sample on; the code only compares a sample with the deadline,  *)
(* so all values past the deadline are represented by deadline + 1.        *)
(* The UART buffer is seen by reads alone, so the module is modelled as    *)
(* sending while a call is running; what a call leaves unread stays in     *)
(* the buffer for the next one.                                            *)
(***************************************************************************)
EXTENDS Integers, Sequences, FiniteSets, TLC

(* ------------------------------ bounds -------------------------------- *)
\* timeout_seconds of a call, in ticks
TimeoutTicks == 1
\* number of indications the module sends in one behaviour
MaxInd == 3
\* number of top-level calls made in one behaviour
MaxCalls == 3

(* ------------------------- program constants -------------------------- *)
SYNC == 170
QueueSize == 32
NumRetries == 8
KeyLen == 16
\* Optional[...] arguments: None
None == -1

valid_commands ==
    (48..54) \cup {64} \cup (66..70) \cup {74, 75} \cup (80..85) \cup {87, 88}

valid_indications == {65, 71, 72, 73}

(* ------------------------------ helpers ------------------------------- *)
\* s[i] + ... + s[j], by halves so that long byte strings stay shallow
RECURSIVE SumRange(_, _, _)
SumRange(s, i, j) ==
    IF i > j THEN 0
    ELSE IF i = j THEN s[i]
    ELSE SumRange(s, i, (i + j) \div 2) + SumRange(s, (i + j) \div 2 + 1, j)

\* "for value in ...: checksum += value"
SumBytes(s) == SumRange(s, 1, Len(s))

\* v ^ 0xFF for a non-negative integer v
Xor255(v) == (v \div 256) * 256 + (255 - (v % 256))

\* v | 0x80 for a byte v
Or128(v) == IF (v \div 128) % 2 = 1 THEN v ELSE v + 128

\* v & 0x7F
And127(v) == v % 128

\* v & 0x80 == 0x80
HasBit128(v) == (v \div 128) % 2 = 1

\* a & b for non-negative integers
RECURSIVE BitAnd(_, _)
BitAnd(a, b) ==
    IF a = 0 \/ b = 0 THEN 0
    ELSE (a % 2) * (b % 2) + 2 * BitAnd(a \div 2, b \div 2)

\* a | b for an integer a of either sign and a non-negative b, as Python
\* computes it on integers of unbounded width
BitOr(a, b) ==
    IF a >= 0 THEN a + b - BitAnd(a, b)
    ELSE -1 - ((-1 - a) - BitAnd(-1 - a, b))

\* bytes([v]) raises ValueError unless v is in range(256)
IsByte(v) == v \in 0..255

\* v.to_bytes(4, 'little', signed=False) for 0 <= v < 2^32
ToBytes4(v) ==
    <<v % 256, (v \div 256) % 256, (v \div 65536) % 256, (v \div 16777216) % 256>>

\* key[::-1]
Reversed(key) == [i \in 1..Len(key) |-> key[Len(key) + 1 - i]]

\* key[::1]
SliceStep1(key) == key

\* mutant of Checksum: the complement without the + 1
ChecksumOnesComplement(to_transmit) == Xor255(SumBytes(to_transmit)) % 256

\* lines 139-144: checksum over 0xAA + command
Checksum(to_transmit) == (Xor255(SumBytes(to_transmit)) + 1) % 256

\* mutant of TransmitCheck: the opcode is not looked at
TransmitCheckNoOpcode(command) ==
    IF Len(command) < 2 THEN "ValueError"
    ELSE IF Len(command) # command[2] + 2 THEN "ValueError"
    ELSE "ok"

\* lines 128-134: the sanity checks of transmit; "ok" or the error raised
TransmitCheck(command) ==
    IF Len(command) < 2 THEN "ValueError"
    ELSE IF Len(command) # command[2] + 2 THEN "ValueError"
    ELSE IF command[1] \notin valid_commands THEN "ValueError"
    ELSE "ok"

\* mutant of Encode: the length byte written counts the checksum too
EncodeCountsChecksum(command) ==
    LET to_transmit == <<SYNC>> \o [command EXCEPT ![2] = @ + 1]
    IN  to_transmit \o <<Checksum(to_transmit)>>

\* lines 136-147: the bytes transmit writes for a command that passed the checks
Encode(command) ==
    LET to_transmit == <<SYNC>> \o command
    IN  to_transmit \o <<Checksum(to_transmit)>>

\* mutant of Accepted: with an expected reply every command reply is accepted
AcceptedAnyReply(b, exp) ==
    \/ exp # None /\ b = exp
    \/ And127(b) \in valid_commands /\ HasBit128(b)
    \/ b \in valid_indications

\* mutant of Accepted: with an expected reply only that reply is accepted
AcceptedReplyOnly(b, exp) ==
    IF exp # None
    THEN b = exp
    ELSE (And127(b) \in valid_commands /\ HasBit128(b)) \/ b \in valid_indications

\* lines 211-217: is the byte accepted as command byte
Accepted(b, exp) ==
    IF exp # None
    THEN b = exp \/ b \in valid_indications
    ELSE (And127(b) \in valid_commands /\ HasBit128(b)) \/ b \in valid_indications

\* mutant of IsIndication: every frame is handed back as an indication
IsIndicationAlways(cb) == TRUE

\* line 248: the second element of the result of receive
IsIndication(cb) == cb \in valid_indications

\* lines 239-244
ChecksumOk(cb, lb, further_bytes) ==
    (SYNC + cb + lb + SumBytes(further_bytes)) % 256 = 0

\* mutant of DropLast: the checksum byte stays in the result
DropLastKept(s) == s

\* line 247, further_bytes[0:-1]
DropLast(s) == IF Len(s) = 0 THEN <<>> ELSE SubSeq(s, 1, Len(s) - 1)

\* a frame as the module puts it on the wire: opcode, payload
WireFrame(op, payload) == Encode(<<op, Len(payload)>> \o payload)

(* ------------------------------- state -------------------------------- *)
VARIABLES
    pc,                 \* where the running call stands in receive:
                        \* "idle" (no call), "sync", "opcode", "length", "payload"
    caller,             \* who called receive: "none", "cmd" (_get_reply),
                        \* "ind" (get_indication), "recv" (receive called directly)
    op,                 \* name of the running or last top-level call
    calls,              \* number of top-level calls made so far
    awake,              \* NWAKE is pulled down (MipotGpio.wakeup / sleep)
    wire,               \* bytes sent by the module and not yet read from the UART
    sent,               \* number of the last indication the module sent
    budget,             \* indications the module may still send
    tx,                 \* bytes written by uart.write in the running or last call
    queue,              \* MipotCmd._indication_queue
    now,                \* receive: last clock sample
    timeout,            \* receive: deadline
    expected_cmd_reply, \* receive: argument
    command_byte,       \* receive: accepted command byte
    length_byte,        \* receive: length byte
    further_bytes,      \* receive: bytes of the pending uart.read(bytes_to_read)
    command,            \* _get_reply: argument
    expected_len,       \* _get_reply: argument
    num_retries,        \* _get_reply: local
    ret,                \* outcome of the running or last top-level call
    rx,                 \* how the last receive() call ended, and the frame it returned
    decoded,            \* number of frames receive returned in the running or last call
    first,              \* first frame receive returned in the running or last command
    q0,                 \* length of the queue at the start of the running or last command
    got,                \* status byte of the last frame get_indication returned
    fed,                \* what was put on the wire for a direct receive call
    args                \* arguments of the running or last call of MipotCmd, as integers

rxvars   == <<pc, now, timeout, expected_cmd_reply, command_byte, length_byte, further_bytes>>
callvars == <<caller, op, calls, awake, tx, queue, command, expected_len, num_retries, ret,
              decoded, first, q0, got, fed, args>>
vars     == <<pc, caller, op, calls, awake, wire, sent, budget, tx, queue, now, timeout,
              expected_cmd_reply, command_byte, length_byte, further_bytes, command,
              expected_len, num_retries, ret, rx, decoded, first, q0, got, fed, args>>

NoFeed == [src |-> "none", garbage |-> <<>>, frame |-> <<>>, reads |-> 0]

\* what the last receive() call of the running or last top-level call ended with
RxOut(k, f) == [kind |-> k, frame |-> f]

NoRet == [kind |-> "pending", frame |-> <<>>, value |-> <<>>]

\* MipotGpio.sleep / wakeup: the state of the wake line afterwards
GpioSleep(a) == FALSE
GpioWakeup(a) == TRUE

\* mutant of QueuePut: the item is put in front of the queue
QueuePutFront(q, item) == IF Len(q) < QueueSize THEN <<item>> \o q ELSE q

\* mutant of QueuePut: a full queue makes room by dropping its oldest entry
QueuePutOverwrite(q, item) ==
    IF Len(q) < QueueSize THEN Append(q, item) ELSE Append(Tail(q), item)

\* mutant of QueuePut: the indication is not queued
QueuePutLost(q, item) == q

\* line 259, queue.Queue(32), and lines 279-282: put(block=False), queue.Full ignored
QueuePut(q, item) == IF Len(q) < QueueSize THEN Append(q, item) ELSE q

\* mutant of QueueGet: the newest entry is taken
QueueGetNewest(q) == [item |-> q[Len(q)], rest |-> SubSeq(q, 1, Len(q) - 1)]

\* mutant of QueueGet: the entry is read and left in the queue
QueueGetKeeps(q) == [item |-> Head(q), rest |-> q]

\* line 299: get(block=False) on a non-empty queue: item and remaining queue
QueueGet(q) == [item |-> Head(q), rest |-> Tail(q)]

\* mutant of GotReply: the length byte of the reply is not looked at
GotReplyAnyLength(frame, is_indication, explen) == ~is_indication

\* lines 278-284: does the decoded frame end the reply-wait as accepted reply
GotReply(frame, is_indication, explen) ==
    ~is_indication /\ (explen = None \/ frame[2] = explen)

\* mutant of KeepWaiting: one attempt too many
KeepWaitingOneMore(got_reply, retries) == ~got_reply /\ retries >= 0

\* line 275: the loop condition of _get_reply
KeepWaiting(got_reply, retries) == ~got_reply /\ retries > 0

\* the timeout_seconds a typed command hands to _get_reply, in ticks: 2 s for
\* the three key commands (lines 620, 639, 658), 1 s or 0.25 s, which both
\* count as one tick, for the others
ReplyTimeout(name) ==
    IF name \in {"set_app_key", "set_app_session_key", "set_nwk_session_key"}
    THEN 2 * TimeoutTicks
    ELSE TimeoutTicks

\* every clock_gettime(CLOCK_MONOTONIC): a value not before the previous sample n
ClockSamples(n, deadline) ==
    n .. (IF deadline + 1 > n THEN deadline + 1 ELSE n)

(* ----------------------- results of typed commands -------------------- *)
\* a call's outcome: kind is "return" or the exception raised, frame the data of
\* _get_reply / get_indication, value the typed result (an int v as <<v>>, None
\* as <<None>>, bytes as they are)
Outcome(k, f, v) == [kind |-> k, frame |-> f, value |-> v]

\* "return response[2]" (join 587, tx_msg 702)
Byte2(response) ==
    IF Len(response) < 3 THEN Outcome("IndexError", response, <<>>)
    ELSE Outcome("return", response, <<response[3]>>)

\* eeprom_read, lines 529-532; num_bytes is the fourth byte of the request
EepromReadResult(response, num_bytes) ==
    IF response[2] # num_bytes + 1 THEN Outcome("return", response, <<None>>)
    ELSE IF Len(response) < 3 THEN Outcome("IndexError", response, <<>>)
    ELSE IF response[3] # 0 THEN Outcome("return", response, <<None>>)
    ELSE Outcome("return", response, SubSeq(response, 4, Len(response)))

\* "return response[2] == 0x00" (eeprom_write 513): True as <<1>>, False as <<0>>
Byte2IsZero(response) ==
    IF Len(response) < 3 THEN Outcome("IndexError", response, <<>>)
    ELSE Outcome("return", response, <<IF response[3] = 0 THEN 1 ELSE 0>>)

\* the statements of a typed command after its try/finally
Typed(o, response, written) ==
    IF o = "eeprom_read" THEN EepromReadResult(response, written[5])
    ELSE IF o = "eeprom_write" THEN Byte2IsZero(response)
    ELSE IF o \in {"set_app_key", "set_app_session_key", "set_nwk_session_key"}
    THEN Outcome("return", response, <<None>>)
    ELSE Byte2(response)

(* ------------------------- leaving receive ---------------------------- *)
RxReset ==
    /\ pc' = "idle"
    /\ now' = 0
    /\ timeout' = 0
    /\ expected_cmd_reply' = expected_cmd_reply
    /\ command_byte' = 0
    /\ length_byte' = 0
    /\ further_bytes' = <<>>

\* lines 176-191: receive is entered, at clock value 0
EnterReceive(timeout_sec, exp) ==
    /\ timeout' = 0 + timeout_sec
    /\ now' \in ClockSamples(0, timeout_sec)
    /\ pc' = "sync"
    /\ expected_cmd_reply' = exp
    /\ command_byte' = 0
    /\ length_byte' = 0
    /\ further_bytes' = <<>>

\* mutant of FinishCommand: the finally-clause is missing
FinishCommandNoSleep(out) ==
    /\ awake' = awake
    /\ ret' = out
    /\ caller' = "none"
    /\ RxReset

\* the end of a typed command: finally-clause, then the result
FinishCommand(out) ==
    /\ awake' = GpioSleep(awake)
    /\ ret' = out
    /\ caller' = "none"
    /\ RxReset

\* mutant of CommandRaises: TimeoutError is swallowed as in get_indication
CommandRaisesSwallowed(exc) ==
    IF exc = "TimeoutError" THEN Outcome("return", <<>>, <<None>>)
    ELSE Outcome(exc, <<>>, <<>>)

\* line 277: _get_reply and the typed commands catch nothing, the exception
\* of receive is the outcome of the command
CommandRaises(exc) == Outcome(exc, <<>>, <<>>)

\* mutant of IndicationRaises: TimeoutError reaches the caller
IndicationRaisesThrough(exc) == Outcome(exc, <<>>, <<>>)

\* lines 292-294: get_indication turns TimeoutError into None
IndicationRaises(exc) ==
    IF exc = "TimeoutError" THEN Outcome("return", <<>>, <<None>>)
    ELSE Outcome(exc, <<>>, <<>>)

\* receive raised exc at the caller
Raise(exc) ==
    /\ UNCHANGED <<op, calls, tx, queue, command, expected_len, num_retries,
                   decoded, first, q0, got, fed, args>>
    /\ IF caller = "cmd"
       THEN FinishCommand(CommandRaises(exc))
       ELSE /\ ret' = IF caller = "ind" THEN IndicationRaises(exc)
                      ELSE Outcome(exc, <<>>, <<>>)
            /\ caller' = "none"
            /\ awake' = awake
            /\ RxReset

\* receive returned (frame, is_indication)
\* (_get_reply 277-286, get_indication 295-297)
Return(frame, is_indication) ==
    /\ decoded' = decoded + 1
    /\ UNCHANGED <<op, calls, tx, command, expected_len, q0, fed, args>>
    /\ IF caller = "cmd"
       THEN /\ first' = IF decoded = 0 THEN frame ELSE first
            /\ queue' = IF is_indication THEN QueuePut(queue, frame) ELSE queue
            /\ got' = got
            /\ IF KeepWaiting(GotReply(frame, is_indication, expected_len), num_retries)
               THEN /\ num_retries' = num_retries - 1
                    /\ EnterReceive(ReplyTimeout(op), Or128(command))
                    /\ UNCHANGED <<caller, awake, ret>>
               ELSE /\ num_retries' = num_retries
                    /\ FinishCommand(Typed(op, frame, tx))
       ELSE /\ UNCHANGED <<queue, num_retries, first, awake>>
            /\ caller' = "none"
            /\ RxReset
            /\ IF caller = "ind" /\ ~is_indication
               THEN /\ ret' = Outcome("RuntimeError", <<>>, <<>>)
                    /\ got' = got
               ELSE /\ ret' = Outcome("return", frame,
                                      IF caller = "recv" /\ is_indication THEN <<1>>
                                      ELSE IF caller = "recv" THEN <<0>> ELSE <<>>)
                    /\ got' = IF caller = "ind" /\ Len(frame) >= 3 THEN frame[3] ELSE got

(* --------------------- MipotSerial.receive, lines 184-248 ------------- *)
\* lines 191-199: one pass of the wait for the sync byte
RecvSync ==
    /\ pc = "sync"
    /\ UNCHANGED <<sent, budget>>
    /\ IF timeout > now
       THEN IF wire = <<>>
            THEN /\ rx' = RxOut("TimeoutError", <<>>)
                 /\ wire' = wire
                 /\ Raise("TimeoutError")
            ELSE /\ wire' = Tail(wire)
                 /\ IF Head(wire) = SYNC
                    THEN pc' = "opcode" /\ now' = now
                    ELSE pc' = "sync" /\ now' \in ClockSamples(now, timeout)
                 /\ UNCHANGED <<timeout, expected_cmd_reply, command_byte, length_byte,
                                further_bytes, rx>>
                 /\ UNCHANGED callvars
       ELSE /\ pc' = "opcode"
            /\ UNCHANGED <<wire, now, timeout, expected_cmd_reply, command_byte,
                           length_byte, further_bytes, rx>>
            /\ UNCHANGED callvars

\* lines 205-217: one read of the command byte; a uart.timeout below zero is
\* refused by the serial port object with ValueError, a uart.timeout of zero
\* reads what is there without waiting
RecvOpcode ==
    /\ pc = "opcode"
    /\ UNCHANGED <<sent, budget>>
    /\ \E n \in ClockSamples(now, timeout) :
        IF timeout - n < 0
        THEN /\ rx' = RxOut("ValueError", <<>>)
             /\ wire' = wire
             /\ Raise("ValueError")
        ELSE IF wire = <<>>
        THEN /\ rx' = RxOut("TimeoutError", <<>>)
             /\ wire' = wire
             /\ Raise("TimeoutError")
        ELSE /\ wire' = Tail(wire)
             /\ UNCHANGED <<timeout, expected_cmd_reply, length_byte, further_bytes, rx>>
             /\ UNCHANGED callvars
             /\ IF Accepted(Head(wire), expected_cmd_reply)
                THEN pc' = "length" /\ command_byte' = Head(wire) /\ now' = n
                ELSE IF Head(wire) = SYNC
                THEN pc' = "opcode" /\ command_byte' = command_byte /\ now' = n
                ELSE /\ pc' = "sync"
                     /\ command_byte' = command_byte
                     /\ now' \in ClockSamples(n, timeout)

\* lines 219-232: the read of the length byte, then the clock check that
\* precedes the read of the remaining bytes
RecvLength ==
    /\ pc = "length"
    /\ UNCHANGED <<sent, budget>>
    /\ \E n \in ClockSamples(now, timeout) :
        IF n >= timeout \/ wire = <<>>
        THEN /\ rx' = RxOut("TimeoutError", <<>>)
             /\ wire' = wire
             /\ Raise("TimeoutError")
        ELSE \E m \in ClockSamples(n, timeout) :
             IF m >= timeout
             THEN /\ rx' = RxOut("TimeoutError", <<>>)
                  /\ wire' = Tail(wire)
                  /\ Raise("TimeoutError")
             ELSE /\ wire' = Tail(wire)
                  /\ length_byte' = Head(wire)
                  /\ pc' = "payload"
                  /\ now' = m
                  /\ UNCHANGED <<timeout, expected_cmd_reply, command_byte,
                                 further_bytes, rx>>
                  /\ UNCHANGED callvars

\* mutant of Resync: the deadline is set anew, timeout_sec after the clock
\* sample, when the search for the sync byte starts over
ResyncFreshDeadline ==
    /\ pc' = "sync"
    /\ further_bytes' = <<>>
    /\ now' \in ClockSamples(now, timeout)
    /\ timeout' = now' + timeout
    /\ UNCHANGED <<expected_cmd_reply, command_byte, length_byte, rx>>
    /\ UNCHANGED callvars

\* lines 186-192, after line 244 found the checksum wrong: the search for the
\* sync byte starts over under the deadline of line 182
Resync ==
    /\ pc' = "sync"
    /\ further_bytes' = <<>>
    /\ now' \in ClockSamples(now, timeout)
    /\ UNCHANGED <<timeout, expected_cmd_reply, command_byte, length_byte, rx>>
    /\ UNCHANGED callvars

\* lines 233-248: uart.read(bytes_to_read) takes the bytes as they arrive; with all
\* of them read the checksum decides between the result and a new sync search
RecvPayload ==
    /\ pc = "payload"
    /\ UNCHANGED <<sent, budget>>
    /\ LET bytes_to_read == length_byte + 1
           missing == bytes_to_read - Len(further_bytes)
       IN  IF Len(wire) < missing
           THEN \/ /\ rx' = RxOut("TimeoutError", <<>>)
                   /\ wire' = <<>>
                   /\ Raise("TimeoutError")
                \/ /\ wire # <<>>
                   /\ further_bytes' = further_bytes \o wire
                   /\ wire' = <<>>
                   /\ UNCHANGED <<pc, now, timeout, expected_cmd_reply, command_byte,
                                  length_byte, rx>>
                   /\ UNCHANGED callvars
           ELSE LET all == further_bytes \o SubSeq(wire, 1, missing)
                    result == <<command_byte, length_byte>> \o DropLast(all)
                IN  /\ wire' = SubSeq(wire, missing + 1, Len(wire))
                    /\ IF ChecksumOk(command_byte, length_byte, all)
                       THEN /\ rx' = RxOut("frame", result)
                            /\ Return(result, IsIndication(command_byte))
                       ELSE Resync

(* --------------------------- typed commands --------------------------- *)
\* the try-block of a typed command: transmit (lines 121-159), then _get_reply
\* up to its first receive (lines 272-277)
Exchange(name, cmd, opcode, explen) ==
    /\ op' = name
    /\ calls' = calls + 1
    /\ decoded' = 0
    /\ first' = <<>>
    /\ q0' = Len(queue)
    /\ rx' = RxOut("none", <<>>)
    /\ UNCHANGED <<wire, sent, budget, queue, got, fed>>
    /\ IF TransmitCheck(cmd) # "ok"
       THEN /\ tx' = <<>>
            /\ UNCHANGED <<command, expected_len, num_retries>>
            /\ FinishCommand(Outcome(TransmitCheck(cmd), <<>>, <<>>))
       ELSE /\ awake' = GpioWakeup(awake)
            /\ tx' = Encode(cmd)
            /\ caller' = "cmd"
            /\ command' = opcode
            /\ expected_len' = explen
            /\ num_retries' = NumRetries - 1
            /\ ret' = NoRet
            /\ EnterReceive(ReplyTimeout(name), Or128(opcode))

\* mutant of Reject: the argument check sits inside the try-block, whose
\* finally-clause releases the wake line
RejectInsideTry(name) ==
    /\ op' = name
    /\ calls' = calls + 1
    /\ ret' = Outcome("ValueError", <<>>, <<>>)
    /\ tx' = <<>>
    /\ decoded' = 0
    /\ first' = <<>>
    /\ q0' = Len(queue)
    /\ rx' = RxOut("none", <<>>)
    /\ awake' = GpioSleep(awake)
    /\ UNCHANGED <<pc, caller, wire, sent, budget, queue, now, timeout,
                   expected_cmd_reply, command_byte, length_byte, further_bytes,
                   command, expected_len, num_retries, got, fed>>

\* a typed command fails its own argument check: nothing else happens
Reject(name) ==
    /\ op' = name
    /\ calls' = calls + 1
    /\ ret' = Outcome("ValueError", <<>>, <<>>)
    /\ tx' = <<>>
    /\ decoded' = 0
    /\ first' = <<>>
    /\ q0' = Len(queue)
    /\ rx' = RxOut("none", <<>>)
    /\ UNCHANGED <<pc, caller, awake, wire, sent, budget, queue, now, timeout,
                   expected_cmd_reply, command_byte, length_byte, further_bytes,
                   command, expected_len, num_retries, got, fed>>

\* lines 564-587
join(mode) ==
    /\ pc = "idle"
    /\ calls < MaxCalls
    /\ args' = <<mode>>
    /\ IF mode < 0 \/ mode > 1
       THEN Reject("join")
       ELSE Exchange("join", <<64, 1, mode>>, 64, 1)

\* lines 664-702
tx_msg(data, fport, confirmed) ==
    /\ pc = "idle"
    /\ calls < MaxCalls
    /\ args' = <<fport, IF confirmed THEN 1 ELSE 0>> \o data
    /\ IF fport < 1 \/ fport > 223 \/ Len(data) > 209 \/ Len(data) = 0
       THEN Reject("tx_msg")
       ELSE Exchange("tx_msg",
                     <<70, Len(data) + 2, IF confirmed THEN 1 ELSE 0, fport>> \o data,
                     70, 1)

\* lines 515-532
eeprom_read(start_address, num_bytes) ==
    /\ pc = "idle"
    /\ calls < MaxCalls
    /\ args' = <<start_address, num_bytes>>
    /\ IF \/ start_address > 255
          \/ start_address + num_bytes > 256
          \/ ~IsByte(start_address) \/ ~IsByte(num_bytes)
       THEN Reject("eeprom_read")
       ELSE Exchange("eeprom_read", <<51, 2, start_address, num_bytes>>, 51, None)

\* lines 498-513
eeprom_write(start_address, data) ==
    /\ pc = "idle"
    /\ calls < MaxCalls
    /\ args' = <<start_address>> \o data
    /\ IF \/ start_address > 255
          \/ Len(data) > 254
          \/ start_address + Len(data) > 255
          \/ ~IsByte(start_address)
       THEN Reject("eeprom_write")
       ELSE Exchange("eeprom_write", <<50, Len(data) + 1, start_address>> \o data, 50, 1)

\* lines 607-624
set_app_key(app_key) ==
    /\ pc = "idle"
    /\ calls < MaxCalls
    /\ args' = app_key
    /\ IF Len(app_key) # KeyLen
       THEN Reject("set_app_key")
       ELSE Exchange("set_app_key", <<67, 16>> \o Reversed(app_key), 67, 0)

\* lines 626-643
set_app_session_key(app_session_key) ==
    /\ pc = "idle"
    /\ calls < MaxCalls
    /\ args' = app_session_key
    /\ IF Len(app_session_key) # KeyLen
       THEN Reject("set_app_session_key")
       ELSE Exchange("set_app_session_key", <<68, 16>> \o Reversed(app_session_key), 68, 0)

\* lines 645-662
set_nwk_session_key(network_session_key) ==
    /\ pc = "idle"
    /\ calls < MaxCalls
    /\ args' = network_session_key
    /\ IF Len(network_session_key) # KeyLen
       THEN Reject("set_nwk_session_key")
       ELSE Exchange("set_nwk_session_key",
                     <<69, 16>> \o SliceStep1(network_session_key), 69, 0)

\* mutant of Bandwidth: a maximal data rate of 6 does not widen the bandwidth
BandwidthNotWidened(min_data_rate, max_data_rate) ==
    IF min_data_rate < 6 THEN 125000
    ELSE IF min_data_rate = 6 THEN 250000
    ELSE IF min_data_rate = 7 THEN 50000
    ELSE -1

\* lines 882-894: the bandwidth of the channel, -1 where line 889 raises
Bandwidth(min_data_rate, max_data_rate) ==
    LET bandwidth == IF min_data_rate < 6 THEN 125000
                     ELSE IF min_data_rate = 6 THEN 250000
                     ELSE IF min_data_rate = 7 THEN 50000
                     ELSE -1
    IN  IF bandwidth # -1 /\ max_data_rate = 6 /\ bandwidth < 250000 THEN 250000
        ELSE bandwidth

\* mutant of DataRate: the nibbles are swapped
DataRateSwapped(min_data_rate, max_data_rate) == BitOr(max_data_rate, min_data_rate * 16)

\* line 901
DataRate(min_data_rate, max_data_rate) == BitOr(min_data_rate, max_data_rate * 16)

\* lines 858-916
set_ch_parameters(channel, frequency, min_data_rate, max_data_rate, enabled) ==
    /\ pc = "idle"
    /\ calls < MaxCalls
    /\ args' = <<channel, frequency, min_data_rate, max_data_rate, IF enabled THEN 1 ELSE 0>>
    /\ LET bandwidth == Bandwidth(min_data_rate, max_data_rate)
           data_rate == DataRate(min_data_rate, max_data_rate)
       IN  IF \/ channel < 3 \/ channel > 15
              \/ min_data_rate > max_data_rate
              \/ bandwidth = -1
              \/ max_data_rate < 0 \/ max_data_rate > 7
              \/ frequency - bandwidth \div 2 < 863000000
              \/ frequency + bandwidth \div 2 > 869000000
              \/ ~IsByte(data_rate)
           THEN Reject("set_ch_parameters")
           ELSE Exchange("set_ch_parameters",
                         <<87, 7, channel>> \o ToBytes4(frequency)
                             \o <<data_rate, IF enabled THEN 1 ELSE 0>>,
                         87, 1)

\* lines 288-299
get_indication(timeout_seconds) ==
    /\ pc = "idle"
    /\ calls < MaxCalls
    /\ op' = "get_indication"
    /\ args' = <<timeout_seconds>>
    /\ calls' = calls + 1
    /\ tx' = <<>>
    /\ decoded' = 0
    /\ rx' = RxOut("none", <<>>)
    /\ command' = 0
    /\ expected_len' = None
    /\ num_retries' = 0
    /\ first' = <<>>
    /\ q0' = Len(queue)
    /\ UNCHANGED <<wire, sent, budget, fed>>
    /\ IF queue = <<>>
       THEN /\ awake' = GpioWakeup(awake)
            /\ UNCHANGED <<queue, got>>
            /\ IF timeout_seconds <= 0
               THEN /\ ret' = Outcome("ValueError", <<>>, <<>>)
                    /\ UNCHANGED <<pc, caller, now, timeout, expected_cmd_reply,
                                   command_byte, length_byte, further_bytes>>
               ELSE /\ ret' = NoRet
                    /\ caller' = "ind"
                    /\ EnterReceive(timeout_seconds, None)
       ELSE /\ queue' = QueueGet(queue).rest
            /\ ret' = Outcome("return", QueueGet(queue).item, <<>>)
            /\ got' = IF Len(QueueGet(queue).item) >= 3 THEN QueueGet(queue).item[3] ELSE got
            /\ UNCHANGED <<pc, caller, awake, now, timeout, expected_cmd_reply,
                           command_byte, length_byte, further_bytes>>

(* ------------------- MipotSerial called directly ---------------------- *)
\* lines 121-159
transmit(cmd) ==
    /\ pc = "idle"
    /\ calls < MaxCalls
    /\ fed.src = "none"
    /\ op' = "transmit"
    /\ args' = <<>>
    /\ calls' = calls + 1
    /\ fed' = [NoFeed EXCEPT !.frame = cmd]
    /\ decoded' = 0
    /\ rx' = RxOut("none", <<>>)
    /\ IF TransmitCheck(cmd) # "ok"
       THEN /\ ret' = Outcome(TransmitCheck(cmd), <<>>, <<>>)
            /\ tx' = <<>>
            /\ awake' = awake
       ELSE /\ awake' = GpioWakeup(awake)
            /\ tx' = Encode(cmd)
            /\ ret' = Outcome("return", <<>>, <<>>)
    /\ UNCHANGED <<pc, caller, wire, sent, budget, queue, now, timeout,
                   expected_cmd_reply, command_byte, length_byte, further_bytes,
                   command, expected_len, num_retries, first, q0, got>>

\* lines 161-191: receive is called
receive(timeout_sec, expected) ==
    /\ pc = "idle"
    /\ calls < MaxCalls
    /\ op' = "receive"
    /\ args' = <<>>
    /\ calls' = calls + 1
    /\ fed' = [fed EXCEPT !.reads = @ + 1]
    /\ decoded' = 0
    /\ rx' = RxOut("none", <<>>)
    /\ UNCHANGED <<awake, wire, sent, budget, tx, queue, command, expected_len,
                   num_retries, first, q0, got>>
    /\ IF timeout_sec <= 0
       THEN /\ ret' = Outcome("ValueError", <<>>, <<>>)
            /\ UNCHANGED <<pc, caller, now, timeout, expected_cmd_reply,
                           command_byte, length_byte, further_bytes>>
       ELSE /\ ret' = NoRet
            /\ caller' = "recv"
            /\ EnterReceive(timeout_sec, expected)

CodecUnchanged ==
    UNCHANGED <<pc, caller, op, calls, awake, sent, budget, tx, queue, now, timeout,
                expected_cmd_reply, command_byte, length_byte, further_bytes, command,
                expected_len, num_retries, ret, rx, decoded, first, q0, got, args>>

\* the bytes just written come back on the receive line
Loopback ==
    /\ pc = "idle"
    /\ op = "transmit"
    /\ tx # <<>>
    /\ wire = <<>>
    /\ fed.src = "none"
    /\ wire' = tx
    /\ fed' = [fed EXCEPT !.src = "loop"]
    /\ CodecUnchanged

\* stray bytes, then one valid frame, arrive on the receive line
Stream(garbage, opcode, payload) ==
    /\ pc = "idle"
    /\ op = "none"
    /\ wire = <<>>
    /\ fed.src = "none"
    /\ wire' = garbage \o WireFrame(opcode, payload)
    /\ fed' = [NoFeed EXCEPT !.src = "stream", !.garbage = garbage,
                              !.frame = <<opcode, Len(payload)>> \o payload]
    /\ CodecUnchanged

(* ------------------------------ the module ---------------------------- *)
\* reply payloads the module answers a command with
ReplyPayloads == {<<>>, <<0>>, <<0, 5>>}

\* stray bytes on the line
NoiseBytes == {0, SYNC}

EnvUnchanged ==
    UNCHANGED <<pc, caller, op, calls, awake, tx, queue, now, timeout, expected_cmd_reply,
                command_byte, length_byte, further_bytes, command, expected_len,
                num_retries, ret, rx, decoded, first, q0, got, fed, args>>

\* the module sends its next join indication; the status byte numbers it
ModuleIndication ==
    /\ wire = <<>>
    /\ pc # "idle"
    /\ budget > 0
    /\ budget' = budget - 1
    /\ sent' = sent + 1
    /\ wire' = WireFrame(65, <<sent + 1>>)
    /\ EnvUnchanged

\* the module answers the command in flight
ModuleReply ==
    /\ wire = <<>>
    /\ caller = "cmd"
    /\ \E payload \in ReplyPayloads : wire' = WireFrame(Or128(command), payload)
    /\ UNCHANGED <<sent, budget>>
    /\ EnvUnchanged

\* a stray byte
ModuleNoise ==
    /\ wire = <<>>
    /\ pc # "idle"
    /\ \E b \in NoiseBytes : wire' = <<b>>
    /\ UNCHANGED <<sent, budget>>
    /\ EnvUnchanged

\* a damaged frame: an indication whose status byte was altered on the line
ModuleDamaged ==
    /\ wire = <<>>
    /\ pc # "idle"
    /\ wire' = [WireFrame(65, <<0>>) EXCEPT ![4] = 255]
    /\ UNCHANGED <<sent, budget>>
    /\ EnvUnchanged

(* --------------------------- specification ---------------------------- *)
Init ==
    /\ pc = "idle"
    /\ caller = "none"
    /\ op = "none"
    /\ calls = 0
    /\ awake = FALSE
    /\ wire = <<>>
    /\ sent = 0
    /\ budget = MaxInd
    /\ tx = <<>>
    /\ queue = <<>>
    /\ now = 0
    /\ timeout = 0
    /\ expected_cmd_reply = None
    /\ command_byte = 0
    /\ length_byte = 0
    /\ further_bytes = <<>>
    /\ command = 0
    /\ expected_len = None
    /\ num_retries = 0
    /\ ret = NoRet
    /\ rx = RxOut("none", <<>>)
    /\ decoded = 0
    /\ first = <<>>
    /\ q0 = 0
    /\ got = 0
    /\ fed = NoFeed
    /\ args = <<>>

\* the driver after earlier reply-waits have left QueueSize - 1 indications,
\* numbered in the order they were decoded, in the queue
Backlog == [i \in 1..(QueueSize - 1) |-> <<65, 1, i>>]

InitBacklog ==
    /\ pc = "idle"
    /\ caller = "none"
    /\ op = "none"
    /\ calls = 0
    /\ awake = FALSE
    /\ wire = <<>>
    /\ sent = Len(Backlog)
    /\ budget = MaxInd
    /\ tx = <<>>
    /\ queue = Backlog
    /\ now = 0
    /\ timeout = 0
    /\ expected_cmd_reply = None
    /\ command_byte = 0
    /\ length_byte = 0
    /\ further_bytes = <<>>
    /\ command = 0
    /\ expected_len = None
    /\ num_retries = 0
    /\ ret = NoRet
    /\ rx = RxOut("none", <<>>)
    /\ decoded = 0
    /\ first = <<>>
    /\ q0 = 0
    /\ got = 0
    /\ fed = NoFeed
    /\ args = <<>>

Receive == RecvSync \/ RecvOpcode \/ RecvLength \/ RecvPayload

Calls ==
    \/ \E mode \in 1..2 : join(mode)
    \/ \E fport \in 0..1 : tx_msg(<<7>>, fport, TRUE)
    \/ \E num_bytes \in 1..2 : eeprom_read(255, num_bytes)
    \/ \E t \in {0, TimeoutTicks} : get_indication(t)

Module == ModuleIndication \/ ModuleReply \/ ModuleNoise \/ ModuleDamaged

Next == Calls \/ Receive \/ Module

Spec == Init /\ [][Next]_vars

SpecBacklog == InitBacklog /\ [][Next]_vars

(* -------------- specification of the codec used directly -------------- *)
\* longest run of stray bytes, longest payload
MaxGarbage == 4
MaxPayload == 2

SeqsUpTo(S, n) == UNION {[1..k -> S] : k \in 0..n}

\* stray bytes: no sync, sync, an indication opcode, a length, a checksum
GarbageBytes == {0, 21, 65, SYNC}
PayloadBytes == {0, SYNC}
\* 0x40 join and 0x46 transmit message, and 0x41, which is no command
CodecOpcodes == {64, 70, 65}
\* frames the module sends: the join indication and the reply to join
ModuleOpcodes == {65, 192}

CodecCommands ==
    {<<>>, <<64>>} \cup
    {<<o, l>> \o p : o \in CodecOpcodes, l \in 0..MaxPayload,
                      p \in SeqsUpTo(PayloadBytes, MaxPayload)}

\* one scenario per behaviour: commands are transmitted and the last one is
\* looped back, or a stream arrives; then receive is called once
CodecCalls ==
    \/ /\ pc = "idle"
       /\ fed.src = "none"
       /\ \E cmd \in CodecCommands : transmit(cmd)
    \/ /\ pc = "idle"
       /\ fed.src # "none"
       /\ fed.reads = 0
       /\ \E t \in {0, TimeoutTicks} : \E e \in {None, 64, 70, 192} : receive(t, e)
    \/ Loopback
    \/ /\ pc = "idle"
       /\ op = "none"
       /\ \E g \in SeqsUpTo(GarbageBytes, MaxGarbage) : \E o \in ModuleOpcodes :
             \E p \in SeqsUpTo({0}, 1) : Stream(g, o, p)

NextCodec == CodecCalls \/ Receive

SpecCodec == Init /\ [][NextCodec]_vars

(* ------------- specification of one typed command per run ------------ *)
\* the driver after earlier calls: asleep or, after a get_indication() that
\* read the wire, awake; the queue empty or, after a command that met an
\* indication, holding it
InitTyped ==
    /\ pc = "idle"
    /\ caller = "none"
    /\ op = "none"
    /\ calls = 0
    /\ \/ awake = FALSE /\ queue = <<>> /\ sent = 0
       \/ awake = TRUE /\ queue = <<>> /\ sent = 0
       \/ awake = FALSE /\ queue = <<<<65, 1, 1>>>> /\ sent = 1
    /\ wire = <<>>
    /\ budget = MaxInd
    /\ tx = <<>>
    /\ now = 0
    /\ timeout = 0
    /\ expected_cmd_reply = None
    /\ command_byte = 0
    /\ length_byte = 0
    /\ further_bytes = <<>>
    /\ command = 0
    /\ expected_len = None
    /\ num_retries = 0
    /\ ret = NoRet
    /\ rx = RxOut("none", <<>>)
    /\ decoded = 0
    /\ first = <<>>
    /\ q0 = 0
    /\ got = 0
    /\ fed = NoFeed
    /\ args = <<>>

Fill(n) == [i \in 1..n |-> 7]

\* 16-byte keys, and one that is too short
Keys == {[i \in 1..16 |-> i], [i \in 1..16 |-> IF i \in {1, 16} THEN 255 ELSE 0],
         [i \in 1..15 |-> i]}

\* arguments of set_ch_parameters: channel, frequency, min_data_rate,
\* max_data_rate, enabled
ChannelArgs ==
    {<<3, 868100000, 0, 5, TRUE>>, <<15, 868500000, 6, 7, FALSE>>,
     <<3, 868100000, 5, 6, TRUE>>, <<2, 868100000, 0, 5, TRUE>>,
     <<16, 868100000, 0, 5, TRUE>>, <<3, 868100000, 5, 0, TRUE>>,
     <<3, 868100000, 8, 8, FALSE>>, <<3, 868100000, 0, 8, TRUE>>,
     <<3, 863000000, 0, 5, TRUE>>, <<3, 869000000, 0, 5, TRUE>>,
     <<3, 868100000, -1, 5, TRUE>>}

TypedCalls ==
    /\ op = "none"
    /\ \/ \E start_address \in {-1, 0, 2, 255, 256} :
             \E data \in {<<>>, <<7>>, <<7, 8>>, Fill(254), Fill(255)} :
                eeprom_write(start_address, data)
       \/ \E start_address \in {-1, 0, 255, 256} : \E num_bytes \in {0, 1, 2, 256} :
             eeprom_read(start_address, num_bytes)
       \/ \E data \in {<<>>, <<7>>, Fill(209), Fill(210)} : \E fport \in {0, 1, 223, 224} :
             tx_msg(data, fport, FALSE)
       \/ \E key \in Keys : set_app_key(key)
       \/ \E key \in Keys : set_app_session_key(key)
       \/ \E key \in Keys : set_nwk_session_key(key)
       \/ \E c \in ChannelArgs : set_ch_parameters(c[1], c[2], c[3], c[4], c[5])

NextTyped == TypedCalls \/ Receive \/ Module

SpecTyped == InitTyped /\ [][NextTyped]_vars

(* ------------ specification of set_ch_parameters alone --------------- *)
\* frequencies at and next to the edges of the band for each bandwidth
ChannelFrequencies ==
    {862000000, 863024999, 863025000, 863062499, 863062500, 863124999, 863125000,
     868100000, 868875000, 868875001, 868937500, 868937501, 868975000, 868975001}

\* data rates: the range 0..7, its edges and the switches of the bandwidth
ChannelRates == {-1, 0, 5, 6, 7, 8}

\* arguments of set_ch_parameters: every channel with one frequency, every
\* frequency and pair of data rates with channel 3
ChannelGrid ==
    {<<c, 868100000, 0, 5, TRUE>> : c \in {2, 3, 15, 16}} \cup
    {<<3, f, mn, mx, FALSE>> : f \in ChannelFrequencies, mn \in ChannelRates,
                               mx \in ChannelRates}

ChannelCalls ==
    /\ op = "none"
    /\ \E c \in ChannelGrid : set_ch_parameters(c[1], c[2], c[3], c[4], c[5])

\* set_ch_parameters is called once and the module answers it
NextChannel == ChannelCalls \/ Receive \/ ModuleReply

SpecChannel == Init /\ [][NextChannel]_vars

(* ------------------------ indication decoders ------------------------- *)
\* MipotCmd._tx_power_table, line 253
tx_power_table == <<20, 14, 11, 8, 5, 2>>

\* int.from_bytes(two bytes, 'little', signed=True), line 413
SignedLittle16(lo, hi) ==
    IF lo + 256 * hi >= 32768 THEN lo + 256 * hi - 65536 ELSE lo + 256 * hi

\* a decoder returns the dict d, or raises ValueError
Decoded(indication, d) == Outcome("return", indication, <<d>>)
BadIndication(indication) == Outcome("ValueError", indication, <<>>)

\* mutant of parse_join_indication: success is byte 2 being non-zero
ParseJoinInverted(indication) ==
    IF Len(indication) # 3 THEN BadIndication(indication)
    ELSE IF indication[1] # 65 THEN BadIndication(indication)
    ELSE Decoded(indication, [indication |-> "join", success |-> indication[3] # 0])

\* lines 311-318; byte k of the source is indication[k + 1] here
parse_join_indication(indication) ==
    IF Len(indication) # 3 THEN BadIndication(indication)
    ELSE IF indication[1] # 65 THEN BadIndication(indication)
    ELSE Decoded(indication, [indication |-> "join", success |-> indication[3] = 0])

\* lines 337-351
parse_tx_msg_confirmed_indication(indication) ==
    IF Len(indication) # 7 THEN BadIndication(indication)
    ELSE IF indication[1] # 71 THEN BadIndication(indication)
    ELSE IF indication[5] > 5 THEN BadIndication(indication)
    ELSE Decoded(indication,
                 [indication |-> "tx_msg_con",
                  success |-> indication[3] = 0,
                  data_rate |-> indication[4],
                  tx_power_dbm |-> tx_power_table[indication[5] + 1],
                  ack_received |-> indication[6] = 1,
                  num_retries |-> indication[7]])

\* lines 367-379
parse_tx_msg_unconfirmed_indication(indication) ==
    IF Len(indication) # 5 THEN BadIndication(indication)
    ELSE IF indication[1] # 72 THEN BadIndication(indication)
    ELSE IF indication[5] > 5 THEN BadIndication(indication)
    ELSE Decoded(indication,
                 [indication |-> "tx_msg_uncon",
                  success |-> indication[3] = 0,
                  data_rate |-> indication[4],
                  tx_power_dbm |-> tx_power_table[indication[5] + 1]])

\* mutant of RxPort: the port is read only from a frame that carries a payload
RxPortWithPayload(indication) ==
    IF Len(indication) > 13 THEN indication[13] ELSE None

\* lines 415-418: the port of a receive message indication
RxPort(indication) ==
    IF Len(indication) > 12 THEN indication[13] ELSE None

\* mutant of RxData: the payload-present flag is not looked at
RxDataAlways(indication) ==
    IF Len(indication) > 13
    THEN SubSeq(indication, 14, Len(indication))
    ELSE <<None>>

\* lines 419-422: the data of a receive message indication, None as <<None>>
RxData(indication) ==
    IF Len(indication) > 13 /\ indication[10] = 1
    THEN SubSeq(indication, 14, Len(indication))
    ELSE <<None>>

\* lines 401-447
parse_rx_msg_indication(indication) ==
    IF Len(indication) < 13 THEN BadIndication(indication)
    ELSE IF indication[1] # 73 THEN BadIndication(indication)
    ELSE LET msg_type == indication[4]
             data_rate == indication[6]
             rx_slot == indication[7]
             port == RxPort(indication)
         IN  IF msg_type > 3 THEN BadIndication(indication)
             ELSE IF data_rate > 7 THEN BadIndication(indication)
             ELSE IF rx_slot > 2 THEN BadIndication(indication)
             ELSE IF port # None /\ (port < 1 \/ port > 223)
             THEN BadIndication(indication)
             ELSE Decoded(indication,
                          [indication |-> "rx_msg",
                           success |-> indication[3] = 0,
                           message_type |-> msg_type,
                           multicast |-> indication[5] = 1,
                           data_rate |-> data_rate,
                           slot |-> rx_slot,
                           frame_pending |-> indication[8] = 1,
                           ack |-> indication[9] = 1,
                           rssi_dbm |-> SignedLittle16(indication[11], indication[12]),
                           snr_db |-> indication[13],
                           port |-> port,
                           data |-> RxData(indication)])

\* lines 459-477: get_parsed_indication after its call of get_indication, whose
\* outcome is out; an exception of get_indication is the outcome
get_parsed_indication(out) ==
    IF out.kind # "return" THEN out
    ELSE IF out.frame = <<>> THEN Outcome("return", <<>>, <<None>>)
    ELSE IF out.frame[1] = 65 THEN parse_join_indication(out.frame)
    ELSE IF out.frame[1] = 71 THEN parse_tx_msg_confirmed_indication(out.frame)
    ELSE IF out.frame[1] = 72 THEN parse_tx_msg_unconfirmed_indication(out.frame)
    ELSE IF out.frame[1] = 73 THEN parse_rx_msg_indication(out.frame)
    ELSE Outcome("RuntimeError", out.frame, <<>>)

(* ---------------- specification of the decoders alone ----------------- *)
\* longest frame handed to a decoder
MaxFrame == 15

\* opcodes of the frames: the four indications and the reply to join
ParseOpcodes == {65, 71, 72, 73, 192}

\* frames of 2 to 8 bytes: opcode, length byte, status, data rate 1, the
\* transmit power index, then ones
ShortFrames ==
    {[i \in 1..n |-> IF i = 1 THEN o ELSE IF i = 2 THEN n - 2
                     ELSE IF i = 3 THEN s ELSE IF i = 5 THEN p ELSE 1] :
        n \in 2..8, o \in ParseOpcodes, s \in {0, 1, 2}, p \in (0..6) \cup {255}}

\* frames of 12 bytes and more, laid out as a receive message indication
RxFrames ==
    {[i \in 1..n |-> IF i = 1 THEN o ELSE IF i = 2 THEN n - 2
                     ELSE IF i = 4 THEN t ELSE IF i = 6 THEN d
                     ELSE IF i = 7 THEN sl ELSE IF i = 10 THEN fl
                     ELSE IF i = 11 THEN 156 ELSE IF i = 12 THEN hi
                     ELSE IF i = 13 THEN b ELSE IF i > 13 THEN 7 ELSE 0] :
        n \in 12..MaxFrame, o \in {73, 72}, t \in {0, 3, 4}, d \in {7, 8},
        sl \in {2, 3}, fl \in {0, 1, 2}, b \in {0, 1, 223, 224}, hi \in {0, 255}}

ParseFrames == ShortFrames \cup RxFrames

\* the frame to decode is the argument
InitParse ==
    /\ pc = "idle"
    /\ caller = "none"
    /\ op = "none"
    /\ calls = 0
    /\ awake = FALSE
    /\ wire = <<>>
    /\ sent = 0
    /\ budget = MaxInd
    /\ tx = <<>>
    /\ queue = <<>>
    /\ now = 0
    /\ timeout = 0
    /\ expected_cmd_reply = None
    /\ command_byte = 0
    /\ length_byte = 0
    /\ further_bytes = <<>>
    /\ command = 0
    /\ expected_len = None
    /\ num_retries = 0
    /\ ret = NoRet
    /\ rx = RxOut("none", <<>>)
    /\ decoded = 0
    /\ first = <<>>
    /\ q0 = 0
    /\ got = 0
    /\ fed = NoFeed
    /\ args \in ParseFrames

\* a decoder is called with the frame and its outcome recorded
Decode(name, out) ==
    /\ op = "none"
    /\ op' = name
    /\ ret' = out
    /\ UNCHANGED <<pc, caller, calls, awake, wire, sent, budget, tx, queue, now, timeout,
                   expected_cmd_reply, command_byte, length_byte, further_bytes, command,
                   expected_len, num_retries, rx, decoded, first, q0, got, fed, args>>

NextParse ==
    \/ Decode("parse_join_indication", parse_join_indication(args))
    \/ Decode("parse_tx_msg_confirmed_indication",
              parse_tx_msg_confirmed_indication(args))
    \/ Decode("parse_tx_msg_unconfirmed_indication",
              parse_tx_msg_unconfirmed_indication(args))
    \/ Decode("parse_rx_msg_indication", parse_rx_msg_indication(args))
    \/ Decode("get_parsed_indication",
              get_parsed_indication(Outcome("return", args, <<>>)))

SpecParse == InitParse /\ [][NextParse]_vars

(* ------------------------------ claims -------------------------------- *)
TypedCommands == {"join", "tx_msg", "eeprom_read"}

\* a typed command has ended (returned or raised)
CommandEnded == pc = "idle" /\ op \in TypedCommands /\ ret.kind # "pending"

\* the frame does not end a reply-wait with expected length explen
NonMatching(frame, explen) ==
    frame[1] \in valid_indications \/ (explen # None /\ frame[2] # explen)

\* join has ended after receive returned exactly two frames: a 0x41 indication,
\* then a 0xC0 reply of the expected length 1
JoinInterleaved ==
    /\ CommandEnded
    /\ op = "join"
    /\ decoded = 2
    /\ first[1] = 65
    /\ rx.kind = "frame"
    /\ rx.frame[1] = 192
    /\ rx.frame[2] = 1

\* the call returned the reply
JoinReturnsReply ==
    /\ ret.kind = "return"
    /\ ret.frame = rx.frame
    /\ ret.value = <<rx.frame[3]>>

\* C1 as stated: in the interleaved case the call returns the 0xC0 reply, the
\* indication is in the queue when the call returns, and the next
\* get_indication() returns exactly that indication frame.
C1_AsStated ==
    /\ [](JoinInterleaved =>
            JoinReturnsReply /\ \E i \in 1..Len(queue) : queue[i] = first)
    /\ [][JoinInterleaved /\ op' = "get_indication" =>
            ret'.kind = "return" /\ ret'.frame = first]_vars

\* C1 amended: when the queue was empty as join was called, in the interleaved
\* case the call returns the 0xC0 reply, the queue holds exactly the indication
\* when the call returns, and the next get_indication() returns exactly that
\* indication frame.
C1_Interleaving ==
    /\ [](JoinInterleaved /\ q0 = 0 => JoinReturnsReply /\ queue = <<first>>)
    /\ [][JoinInterleaved /\ q0 = 0 /\ op' = "get_indication" =>
            ret'.kind = "return" /\ ret'.frame = first]_vars

C1_Witness ==
    /\ JoinInterleaved
    /\ q0 = 0
    /\ queue = <<first>>
    /\ ret.frame = <<192, 1, 0>>

\* C2: whenever a typed command has returned or raised after transmit woke the
\* module and wrote the frame, the module is asleep.
C2_CommandSleeps == CommandEnded /\ tx # <<>> => ~awake

C2_Witness ==
    /\ CommandEnded
    /\ op = "tx_msg"
    /\ tx # <<>>
    /\ ret.kind = "ValueError"
    /\ calls = 2

\* C3: whenever get_indication() has finished after a direct decode attempt, the
\* module is asleep.
C3_IndicationSleeps ==
    pc = "idle" /\ op = "get_indication" /\ rx.kind # "none" => ~awake

\* C4: a reply-wait gets at most 8 frames from receive, none after the 8th; when
\* the 8th does not match either, the reply-wait returns it without raising.
C4_RetryExhaustion ==
    /\ decoded <= NumRetries
    /\ caller = "cmd" => decoded < NumRetries
    /\ CommandEnded /\ decoded = NumRetries /\ NonMatching(rx.frame, expected_len)
         => ret.kind \in {"return", "IndexError"} /\ ret.frame = rx.frame

C4_Witness ==
    /\ CommandEnded
    /\ decoded = NumRetries
    /\ NonMatching(rx.frame, expected_len)
    /\ ret.frame = rx.frame
    /\ rx.frame[1] = 192

\* C5: when a decode attempt of a reply-wait ends in Timeout, the command has
\* failed with Timeout: no further attempt runs and no frame is returned.
C5_TimeoutNotRetried ==
    op \in TypedCommands /\ rx.kind = "TimeoutError"
        => /\ pc = "idle"
           /\ caller = "none"
           /\ ret.kind = "TimeoutError"
           /\ ret.frame = <<>>
           /\ ret.value = <<>>

C5_Witness ==
    /\ op \in TypedCommands
    /\ rx.kind = "TimeoutError"
    /\ decoded = 2
    /\ num_retries = NumRetries - 3

\* the step in which a reply-wait gets an indication from receive
DecodesIndication ==
    /\ caller = "cmd"
    /\ decoded' = decoded + 1
    /\ rx'.kind = "frame"
    /\ rx'.frame[1] \in valid_indications

\* C6: the queue never holds more than 32 frames; an indication decoded by a
\* reply-wait while it holds 32 leaves the queue as it is and raises nothing.
C6_BoundedQueue ==
    /\ [](Len(queue) <= QueueSize)
    /\ [][Len(queue) = QueueSize /\ DecodesIndication =>
            queue' = queue /\ ret'.kind \in {"pending", "return"}]_vars

C6_Witness ==
    /\ Len(queue) = QueueSize
    /\ op \in TypedCommands
    /\ rx.kind = "frame"
    /\ rx.frame[1] = 65
    /\ rx.frame[3] > queue[QueueSize][3]

\* C7: the queue holds the indications in the order of their decoding (their
\* numbers increase), and whatever get_indication() has returned was decoded
\* before everything still queued.
C7_Fifo ==
    /\ \A i \in 1..Len(queue) : \A j \in 1..Len(queue) :
          i < j => queue[i][3] < queue[j][3]
    /\ \A i \in 1..Len(queue) : got < queue[i][3]

C7_Witness ==
    /\ op = "get_indication"
    /\ got = 1
    /\ Len(queue) = 2
    /\ ret.frame = <<65, 1, 1>>

\* the opcodes a decode call with expected reply exp takes as frame start
Acceptable(b, exp) ==
    \/ b \in valid_indications
    \/ exp # None /\ b = exp
    \/ exp = None /\ b >= 128 /\ (b - 128) \in valid_commands

\* the direct receive call on a stream of stray bytes and one frame has ended
StreamDone ==
    /\ pc = "idle"
    /\ op = "receive"
    /\ fed.src = "stream"
    /\ ret.kind # "pending"
    /\ Acceptable(fed.frame[1], expected_cmd_reply)

\* no sync byte among the stray bytes is directly followed by an opcode the
\* call accepts
CleanGarbage(g, exp) ==
    \A i \in 1..(Len(g) - 1) : ~(g[i] = SYNC /\ Acceptable(g[i + 1], exp))

\* the call gave back the frame, or its deadline elapsed: a clock sample past
\* the deadline is refused as uart.timeout, or the call timed out with bytes
\* still unread
FrameOrDeadline(frame) ==
    IF ret.kind = "return"
    THEN ret.frame = frame /\ ret.value = <<IF frame[1] \in valid_indications THEN 1 ELSE 0>>
    ELSE ret.kind = "ValueError" \/ (ret.kind = "TimeoutError" /\ wire # <<>>)

\* some run of the stray bytes is itself a frame: sync byte, an opcode of the
\* module, a length byte counting the bytes up to the checksum, sum 0 mod 256
HoldsFrame(g) ==
    \E i \in 1..Len(g) : \E j \in (i + 3)..Len(g) :
        /\ g[i] = SYNC
        /\ Acceptable(g[i + 1], None)
        /\ g[i + 2] = j - i - 3
        /\ SumBytes(SubSeq(g, i, j)) % 256 = 0

\* C8 as stated: whatever the stray bytes before the one valid frame (0xAA and
\* opcode values among them, but no further frame), a decode call whose
\* deadline does not elapse returns that frame.
C8_AsStated == StreamDone /\ ~HoldsFrame(fed.garbage) => FrameOrDeadline(fed.frame)

\* C8 amended: when no 0xAA among the stray bytes is directly followed by an
\* opcode the call accepts, a decode call whose deadline does not elapse returns
\* the one valid frame that follows them.
C8_Resync ==
    StreamDone /\ CleanGarbage(fed.garbage, expected_cmd_reply)
        => FrameOrDeadline(fed.frame)

\* the stream 0x00 0x41 0xAA 0x41 0x01 0x00 <checksum> gave the Join frame
C8_Witness ==
    /\ StreamDone
    /\ fed.garbage = <<0, 65>>
    /\ fed.frame = <<65, 1, 0>>
    /\ ret.kind = "return"
    /\ ret.frame = <<65, 1, 0>>

\* the direct receive call on the looped-back bytes of transmit has ended
LoopDone ==
    /\ pc = "idle"
    /\ op = "receive"
    /\ fed.src = "loop"
    /\ ret.kind # "pending"

\* C9 as stated: receive, fed the bytes transmit wrote for a command, returns
\* the command's opcode, length and payload unless its deadline elapses.
C9_AsStated == LoopDone => FrameOrDeadline(fed.frame)

\* C9 amended: receive called with the command's opcode as expected reply, and
\* fed the bytes transmit wrote for the command, returns the command's opcode,
\* length and payload unless its deadline elapses.
C9_RoundTrip ==
    LoopDone /\ expected_cmd_reply = fed.frame[1] => FrameOrDeadline(fed.frame)

C9_Witness ==
    /\ LoopDone
    /\ expected_cmd_reply = 70
    /\ fed.frame = <<70, 2, SYNC, SYNC>>
    /\ ret.kind = "return"
    /\ ret.frame = fed.frame

\* C10: the bytes transmit writes are 0xAA, the command and one checksum byte,
\* the two's complement of the sum of the bytes before it, so that all bytes
\* written sum to 0 modulo 256.
C10_ChecksumInvariant ==
    tx # <<>> =>
        /\ tx[1] = SYNC
        /\ op = "transmit" => SubSeq(tx, 2, Len(tx) - 1) = fed.frame
        /\ tx[Len(tx)] = (256 - (SumBytes(SubSeq(tx, 1, Len(tx) - 1)) % 256)) % 256
        /\ SumBytes(tx) % 256 = 0

C10_Witness ==
    /\ op = "transmit"
    /\ ret.kind = "return"
    /\ Len(tx) = 6
    /\ SubSeq(tx, 1, 5) = <<SYNC, 70, 2, SYNC, SYNC>>
    /\ SumBytes(tx) = 768

\* C11 as stated: the length byte transmit writes is the number of payload
\* bytes plus one, and a frame receive returns for length byte L has L - 1
\* payload bytes.
C11_AsStated ==
    /\ op = "transmit" /\ tx # <<>> => tx[3] = (Len(tx) - 4) + 1
    /\ op = "receive" /\ pc = "idle" /\ ret.kind = "return"
           => Len(ret.frame) - 2 = ret.frame[2] - 1

\* C11 amended: the length byte transmit writes is the number of payload bytes,
\* without the checksum; receive, after length byte L, reads L + 1 further
\* bytes, the last of which is the checksum, so that the payload has L bytes.
C11_LengthByte ==
    /\ op = "transmit" /\ tx # <<>> => tx[3] = Len(tx) - 4
    /\ pc = "payload" => Len(further_bytes) <= length_byte
    /\ op = "receive" /\ pc = "idle" /\ ret.kind = "return"
           => Len(ret.frame) - 2 = ret.frame[2]
    /\ LoopDone /\ ret.kind = "return" => wire = <<>> /\ Len(tx) = 3 + ret.frame[2] + 1

C11_Witness ==
    /\ LoopDone
    /\ ret.kind = "return"
    /\ tx[3] = 2
    /\ ret.frame = <<70, 2, 0, SYNC>>

KeyCommands == {"set_app_key", "set_app_session_key", "set_nwk_session_key"}

\* C12: each of the three key commands writes the 16 bytes of its key in
\* reversed order: payload byte i is key byte 15 - i, for i in 0..15.
C12_KeyReversed ==
    op \in KeyCommands /\ tx # <<>> =>
        /\ Len(tx) = 20
        /\ \A i \in 0..15 : tx[4 + i] = args[16 - i]

\* the call of the specification's example: channel 3, 868.1 MHz, data rates 0
\* to 5, enabled
ChannelExample ==
    op = "set_ch_parameters" /\ args = <<3, 868100000, 0, 5, 1>>

\* C13 as stated: set_ch_parameters(3, 868100000, 0, 5, True) passes validation
\* and the data-rate byte of the request is 0x05.
C13_AsStated == ChannelExample => tx # <<>> /\ tx[9] = 5

\* C13 amended: set_ch_parameters(3, 868100000, 0, 5, True) passes validation
\* and the data-rate byte of the request is 0x50: the minimum data rate in the
\* low nibble, the maximum in the high nibble.
C13_DataRateByte ==
    ChannelExample =>
        /\ Len(tx) = 11
        /\ SubSeq(tx, 1, 10) = <<SYNC, 87, 7, 3, 160, 39, 190, 51, 80, 1>>

C13_Witness ==
    /\ ChannelExample
    /\ pc = "idle"
    /\ tx[9] = 80
    /\ ret.kind = "return"
    /\ ret.value = <<0>>

\* C14: eeprom_write(start, data) passes validation exactly when start <= 0xFF,
\* len(data) <= 254 and start + len(data) <= 0x100.
C14_EepromWriteRange ==
    op = "eeprom_write" =>
        (tx # <<>> <=> /\ args[1] <= 255
                       /\ Len(args) - 1 <= 254
                       /\ args[1] + (Len(args) - 1) <= 256)

\* the bandwidth the protocol derives from the data rates of a channel
ProtocolBandwidth(min_dr, max_dr) ==
    IF max_dr = 6 \/ min_dr = 6 THEN 250000
    ELSE IF min_dr = 7 THEN 50000
    ELSE 125000

\* the protocol's ranges of the arguments of a typed command
ArgsInRange(name, a) ==
    IF name = "eeprom_write"
    THEN a[1] \in 0..255 /\ Len(a) - 1 <= 254 /\ a[1] + (Len(a) - 1) <= 256
    ELSE IF name = "eeprom_read"
    THEN a[1] \in 0..255 /\ a[2] \in 0..256 /\ a[1] + a[2] <= 256
    ELSE IF name = "tx_msg"
    THEN a[1] \in 1..223 /\ (Len(a) - 2) \in 1..209
    ELSE IF name \in KeyCommands
    THEN Len(a) = 16
    ELSE IF name = "set_ch_parameters"
    THEN /\ a[1] \in 3..15
         /\ a[3] \in 0..7 /\ a[4] \in 0..7 /\ a[3] <= a[4]
         /\ 2 * a[2] - ProtocolBandwidth(a[3], a[4]) >= 2 * 863000000
         /\ 2 * a[2] + ProtocolBandwidth(a[3], a[4]) <= 2 * 869000000
    ELSE TRUE

\* C15: a typed command called with an argument outside its protocol range
\* fails with ValueError in the step of the call, with no wake, write, read
\* or sleep and with the indication queue unchanged.
C15_ValidationFirst ==
    [][calls' = calls + 1 /\ ~ArgsInRange(op', args') =>
           /\ ret'.kind = "ValueError"
           /\ pc' = "idle"
           /\ awake' = awake
           /\ tx' = <<>>
           /\ wire' = wire
           /\ rx'.kind = "none"
           /\ queue' = queue]_vars

\* set_ch_parameters with channel 16, called while the wake line was held
\* down, has failed and left the line as it was
C15_Witness ==
    /\ op = "set_ch_parameters"
    /\ args[1] = 16
    /\ ret.kind = "ValueError"
    /\ awake
    /\ tx = <<>>

\* C16: a typed command returns a value or fails with one of ValueError
\* (InvalidArgument, InvalidFrame), TimeoutError (Timeout) and RuntimeError
\* (ProtocolViolation); nothing else is raised.
C16_ClosedOutcomes ==
    CommandEnded => ret.kind \in {"return", "ValueError", "TimeoutError", "RuntimeError"}

\* get_indication() was called with an empty queue and has ended
IndicationWaitEnded ==
    pc = "idle" /\ op = "get_indication" /\ q0 = 0 /\ ret.kind # "pending"

\* C17: get_indication() with an empty queue makes one receive call with no
\* expected reply; an indication is returned, a command reply makes the call
\* fail with RuntimeError, a TimeoutError makes it return None.
C17_DirectWait ==
    /\ caller = "ind" /\ pc # "idle" => decoded = 0 /\ expected_cmd_reply = None /\ q0 = 0
    /\ IndicationWaitEnded /\ rx.kind = "frame" =>
           /\ decoded = 1
           /\ expected_cmd_reply = None
           /\ IF rx.frame[1] \in valid_indications
              THEN ret.kind = "return" /\ ret.frame = rx.frame
              ELSE ret.kind = "RuntimeError"
    /\ IndicationWaitEnded /\ rx.kind = "TimeoutError" =>
           /\ decoded = 0
           /\ ret.kind = "return"
           /\ ret.value = <<None>>
           /\ ret.frame = <<>>

\* the wait has met the reply a command left unread and has failed
C17_Witness ==
    /\ IndicationWaitEnded
    /\ rx.kind = "frame"
    /\ rx.frame[1] = 192
    /\ ret.kind = "RuntimeError"

\* C18: get_indication() with a non-empty queue returns the oldest queued frame
\* in the step of the call, takes it from the queue, leaves the other entries as
\* they are, and neither wakes the module nor reads from the stream.
C18_QueuedIndication ==
    [][op' = "get_indication" /\ calls' = calls + 1 /\ queue # <<>> =>
           /\ ret'.kind = "return"
           /\ ret'.frame = Head(queue)
           /\ queue' = Tail(queue)
           /\ pc' = "idle"
           /\ awake' = awake
           /\ wire' = wire
           /\ tx' = <<>>
           /\ rx'.kind = "none"]_vars

C18_Witness ==
    /\ op = "get_indication"
    /\ pc = "idle"
    /\ q0 = 2
    /\ ret.kind = "return"
    /\ ret.frame = <<65, 1, 1>>
    /\ queue = <<<<65, 1, 2>>>>
    /\ ~awake

\* C19 as stated: the time a command may still wait for bytes never grows
\* while the command runs, so that it never waits later than its timeout
\* after its start.
C19_AsStated ==
    [][caller = "cmd" /\ caller' = "cmd" => timeout' - now' <= timeout - now]_vars

\* C19 amended: the deadline of a receive call is computed once, at its entry,
\* and stays as it is through all resynchronizations of that call; each of the
\* at most 8 decode attempts of a command is a receive call with a deadline of
\* its own, its timeout after the attempt starts.
C19_DeadlinePerAttempt ==
    [][/\ pc # "idle" /\ pc' # "idle" /\ decoded' = decoded
           => timeout' = timeout /\ now' >= now
       /\ pc # "idle" /\ pc' # "idle" /\ decoded' # decoded
           => /\ caller = "cmd"
              /\ decoded' <= NumRetries - 1
              /\ timeout' = ReplyTimeout(op)
              /\ now' >= 0]_vars

\* a key command, in its second attempt, has started the sync search over one
\* tick after the attempt began, its deadline still two ticks
C19_Witness ==
    /\ caller = "cmd"
    /\ op \in KeyCommands
    /\ pc = "sync"
    /\ decoded = 1
    /\ command_byte = 65
    /\ length_byte = 1
    /\ now = 1
    /\ timeout = 2 * TimeoutTicks

\* the command given to transmit is one the protocol cannot send: too short,
\* no command opcode, or a length byte that is not the number of payload bytes
Unsendable(cmd) ==
    \/ Len(cmd) < 2
    \/ cmd[1] \notin valid_commands
    \/ cmd[2] # Len(cmd) - 2

\* C20 as stated: transmit fails with ValueError, writing nothing and not
\* waking the module, whenever the opcode is no command, the length does not
\* fit, or the payload is empty for join (0x40), transmit message (0x46) or set
\* next data rate (0x4B).
C20_AsStated ==
    [][/\ op' = "transmit"
       /\ calls' = calls + 1
       /\ \/ Unsendable(fed'.frame)
          \/ fed'.frame[1] \in {64, 70, 75} /\ Len(fed'.frame) = 2
       => ret'.kind = "ValueError" /\ tx' = <<>> /\ awake' = awake]_vars

\* C20 amended: transmit fails with ValueError, writing nothing and not waking
\* the module, exactly when the command has fewer than two bytes, its opcode is
\* no command or its length byte is not the number of payload bytes; an empty
\* payload is accepted for every command opcode.
C20_EncodeRejection ==
    [][op' = "transmit" /\ calls' = calls + 1 =>
           IF Unsendable(fed'.frame)
           THEN ret'.kind = "ValueError" /\ tx' = <<>> /\ awake' = awake /\ wire' = wire
           ELSE ret'.kind = "return" /\ tx' # <<>> /\ awake']_vars

\* transmit has refused the indication opcode 0x41 and left the module asleep
C20_Witness ==
    /\ op = "transmit"
    /\ calls = 1
    /\ fed.frame = <<65, 0>>
    /\ ret.kind = "ValueError"
    /\ tx = <<>>
    /\ ~awake

\* the dict a decoder returned
Dict == ret.value[1]

\* a decoder was applied to the frame args and returned a dict
DecodedAs(kind) ==
    /\ op \notin {"none"}
    /\ ret.kind = "return"
    /\ Dict.indication = kind

\* transmit power in dBm by power index, as the protocol lists it
PowerDbm(index) ==
    CASE index = 0 -> 20 [] index = 1 -> 14 [] index = 2 -> 11
      [] index = 3 -> 8 [] index = 4 -> 5 [] index = 5 -> 2

\* C21: a frame is decoded as Join only when it has exactly 3 bytes and opcode
\* 0x41, with success = (byte 2 = 0); as TxConfirmed only with exactly 7 bytes
\* and opcode 0x47; as TxUnconfirmed only with exactly 5 bytes and opcode 0x48;
\* both transmit indications give 20, 14, 11, 8, 5, 2 dBm for the power index
\* 0..5, and with a power index above 5 the decoder fails with ValueError
C21_Decoders ==
    /\ op = "parse_join_indication" =>
          /\ ret.kind = "return" <=> Len(args) = 3 /\ args[1] = 65
          /\ ret.kind \in {"return", "ValueError"}
    /\ op = "parse_tx_msg_confirmed_indication" =>
          /\ ret.kind = "return" <=> Len(args) = 7 /\ args[1] = 71 /\ args[5] <= 5
          /\ ret.kind \in {"return", "ValueError"}
    /\ op = "parse_tx_msg_unconfirmed_indication" =>
          /\ ret.kind = "return" <=> Len(args) = 5 /\ args[1] = 72 /\ args[5] <= 5
          /\ ret.kind \in {"return", "ValueError"}
    /\ DecodedAs("join") =>
          /\ Len(args) = 3 /\ args[1] = 65
          /\ Dict.success = (args[3] = 0)
    /\ DecodedAs("tx_msg_con") =>
          /\ Len(args) = 7 /\ args[1] = 71
          /\ Dict.tx_power_dbm = PowerDbm(args[5])
    /\ DecodedAs("tx_msg_uncon") =>
          /\ Len(args) = 5 /\ args[1] = 72
          /\ Dict.tx_power_dbm = PowerDbm(args[5])

\* a transmit message confirmed indication with power index 5 was decoded as 2 dBm
C21_Witness ==
    /\ op = "parse_tx_msg_confirmed_indication"
    /\ DecodedAs("tx_msg_con")
    /\ args[5] = 5
    /\ Dict.tx_power_dbm = 2

\* parse_rx_msg_indication was applied to a frame of at least 13 bytes with
\* opcode 0x49
RxDecoderRan ==
    /\ op = "parse_rx_msg_indication"
    /\ Len(args) >= 13
    /\ args[1] = 73

\* C22: a frame with opcode 0x49 and at least 13 bytes is decoded exactly when
\* message type <= 3, data rate <= 7, receive slot <= 2 and the port, present
\* when the frame is longer than 12 bytes, is within 1..223, and fails with
\* ValueError otherwise; the payload bytes are returned only when the
\* payload-present flag byte is 1 and the frame is longer than 13 bytes, and
\* are absent otherwise
C22_RxDecoder ==
    RxDecoderRan =>
        /\ ret.kind \in {"return", "ValueError"}
        /\ ret.kind = "return" <=>
              /\ args[4] <= 3
              /\ args[6] <= 7
              /\ args[7] <= 2
              /\ Len(args) > 12 => args[13] \in 1..223
        /\ ret.kind = "return" =>
              Dict.data = IF args[10] = 1 /\ Len(args) > 13
                          THEN SubSeq(args, 14, Len(args))
                          ELSE <<None>>

\* a frame of 14 bytes with the payload-present flag 0 was decoded, without data
C22_Witness ==
    /\ RxDecoderRan
    /\ ret.kind = "return"
    /\ Len(args) = 14
    /\ args[10] = 0
    /\ Dict.data = <<None>>
    /\ Dict.port = 223

\* the protocol's condition on the arguments a of set_ch_parameters
ChannelAccepted(a) ==
    /\ a[1] \in 3..15
    /\ 0 <= a[3] /\ a[3] <= a[4] /\ a[4] <= 7
    /\ 2 * a[2] - ProtocolBandwidth(a[3], a[4]) >= 2 * 863000000
    /\ 2 * a[2] + ProtocolBandwidth(a[3], a[4]) <= 2 * 869000000

C24_OpcodeAcceptance ==
    [][/\ pc = "opcode" /\ wire # <<>> /\ wire' = Tail(wire) =>
             IF Head(wire) = SYNC THEN pc' = "opcode"
             ELSE IF Acceptable(Head(wire), expected_cmd_reply)
             THEN pc' = "length" /\ command_byte' = Head(wire)
             ELSE pc' = "sync"
       /\ rx'.kind = "frame" => Acceptable(rx'.frame[1], expected_cmd_reply)
      ]_vars

\* the stream AA AA 15 and then a frame: the second 0xAA was skipped, 0x15 sent
\* decode back to the sync search, and the frame was returned
C24_Witness ==
    /\ StreamDone
    /\ fed.garbage = <<SYNC, SYNC, 21>>
    /\ ret.kind = "return"
    /\ ret.frame = fed.frame

\* C25: a decode call ends with a checksum-valid frame or with TimeoutError;
\* its deadline is not moved while it runs; and once the deadline has elapsed
\* in the sync search the call fails with TimeoutError without reading a byte
C25_DecodeDeadline ==
    [][/\ pc # "idle" /\ pc' # "idle" /\ decoded' = decoded => timeout' = timeout
       /\ pc = "sync" /\ now >= timeout => rx'.kind = "TimeoutError" /\ wire' = wire
       /\ rx'.kind \in {"none", "frame", "TimeoutError"}
      ]_vars

\* the frame is a command reply whose length byte is not the expected one
LengthMismatch(frame, explen) ==
    /\ frame[1] \notin valid_indications
    /\ explen # None
    /\ frame[2] # explen

\* C26: while attempts remain, a decoded frame with the expected reply opcode
\* whose length byte differs from the expected length is not taken as the
\* reply and is not put on the indication queue, and the reply-wait goes on to
\* the next decode attempt; a frame with the expected opcode and the expected
\* length is returned
C26_LengthMismatchRetried ==
    [][caller = "cmd" /\ decoded' = decoded + 1 /\ expected_len # None =>
          /\ rx'.frame[1] \notin valid_indications => rx'.frame[1] = Or128(command)
          /\ LengthMismatch(rx'.frame, expected_len) /\ num_retries > 0 =>
                /\ queue' = queue
                /\ caller' = "cmd"
                /\ pc' = "sync"
                /\ num_retries' = num_retries - 1
                /\ ret'.kind = "pending"
          /\ rx'.frame[1] = Or128(command) /\ rx'.frame[2] = expected_len =>
                /\ caller' = "none"
                /\ ret'.kind = "return"
                /\ ret'.frame = rx'.frame
      ]_vars

\* join decoded the reply C0 00, of length 0, and then the reply C0 01 00, and
\* returned the latter with nothing queued
C26_Witness ==
    /\ CommandEnded
    /\ op = "join"
    /\ decoded = 2
    /\ first = <<192, 0>>
    /\ ret.kind = "return"
    /\ ret.frame = <<192, 1, 0>>
    /\ queue = <<>>

\* get_indication() has returned a frame
IndicationReturned ==
    /\ op = "get_indication"
    /\ ret.kind = "return"
    /\ ret.frame # <<>>

\* C27: every frame in the indication queue has an opcode in {0x41, 0x47,
\* 0x48, 0x49} and was put there by a reply-wait as the frame it had just
\* decoded; the direct decode of get_indication() never enqueues; so
\* get_indication() never returns a frame with a non-indication opcode and
\* get_parsed_indication never fails with 'Unexpected indication'
C27_QueueContent ==
    /\ [](\A i \in 1..Len(queue) : queue[i][1] \in valid_indications)
    /\ [](IndicationReturned =>
            /\ ret.frame[1] \in valid_indications
            /\ get_parsed_indication(ret).kind # "RuntimeError")
    /\ [][/\ Len(queue') > Len(queue) =>
                /\ caller = "cmd"
                /\ decoded' = decoded + 1
                /\ queue' = Append(queue, rx'.frame)
          /\ caller = "ind" => queue' = queue
         ]_vars

\* a command queued two indications and get_indication() then returned the
\* first, which is decoded as a join indication
C27_Witness ==
    /\ IndicationReturned
    /\ q0 = 2
    /\ queue # <<>>
    /\ ret.frame[1] = 65
    /\ get_parsed_indication(ret).kind = "return"

\* the bytes put on the line for a direct receive call, and how many of them
\* the call has read
Streamed == fed.garbage \o Encode(fed.frame)
ReadSoFar == Len(Streamed) - Len(wire)

\* C28: a byte is accepted as opcode, and so every returned frame starts, only
\* at the stream position right after a 0xAA byte that decode has read; also
\* when the sync search was left because the deadline elapsed
C28_SyncPrecondition ==
    fed.src = "stream" /\ op = "receive" /\ pc = "length" =>
        /\ command_byte = Streamed[ReadSoFar]
        /\ ReadSoFar >= 2
        /\ Streamed[ReadSoFar - 1] = SYNC

\* a typed command has ended after its 8th decoded frame, an indication, with
\* room in the queue
ExhaustedOnIndication ==
    /\ CommandEnded
    /\ decoded = NumRetries
    /\ rx.kind = "frame"
    /\ rx.frame[1] \in valid_indications
    /\ q0 + NumRetries <= QueueSize

\* C29: when the 8th decoded frame of a reply-wait is an indication and the
\* queue is not full, that frame is appended to the indication queue and is
\* also what the command takes as its reply, so that join and tx_msg return
\* its status byte; a later get_indication() returns the same frame
C29_DoubleDelivery ==
    /\ [](ExhaustedOnIndication =>
            /\ queue # <<>>
            /\ queue[Len(queue)] = rx.frame
            /\ ret.kind = "return"
            /\ ret.frame = rx.frame
            /\ op \in {"join", "tx_msg"} => ret.value = <<rx.frame[3]>>)
    /\ [][/\ caller = "cmd" /\ decoded' = NumRetries
                /\ rx'.frame[1] \in valid_indications /\ Len(queue) < QueueSize =>
                    /\ queue' = Append(queue, rx'.frame)
                    /\ caller' = "none"
                    /\ ret'.frame = rx'.frame
          /\ ExhaustedOnIndication /\ Len(queue) = 1 /\ op' = "get_indication" =>
                    /\ ret'.kind = "return"
                    /\ ret'.frame = ret.frame
                    /\ queue' = <<>>
         ]_vars

\* join ended on its 8th frame, an indication that follows an earlier one in
\* the queue, and returned the status byte of that indication
C29_Witness ==
    /\ ExhaustedOnIndication
    /\ op = "join"
    /\ Len(queue) = 2
    /\ queue[2] = ret.frame
    /\ ret.value = <<ret.frame[3]>>

====
